---- MODULE Spec2Model ----
(***************************************************************************)
(* MjengoLink: the payment / escrow lifecycle (payments app) and the bid   *)
(* acceptance flow (projects app), modelled from the Django sources.       *)
(*                                                                         *)
(* The database tables are the state.  A request handler that runs inside  *)
(* transaction.atomic is one action; the M-Pesa callback handler, which    *)
(* runs in autocommit mode, is one action per database write, with the     *)
(* model instances it holds in memory kept per worker.                     *)
(***************************************************************************)
EXTENDS Integers, Sequences, FiniteSets, TLC

(***************************************************************************)
(* Bounds of the model.                                                    *)
(***************************************************************************)
MaxPayments == 2
OnePayment == 1
MaxClock == 3
MaxRetries == 1
MaxDisputes == 1
MaxSecs == 2
MaxWithdrawals == 2

(***************************************************************************)
(* Program constants.                                                      *)
(***************************************************************************)
FeePercent == 5
MaxAmount == 1000000
PrefixLen == 20

Homeowner == "homeowner"
Artisan == "artisan"
Users == {Homeowner, Artisan}
Workers == {"w1", "w2"}
MilestoneIds == {1, 2}
NoMilestone == 0
NoProject == 0
TheProject == 1
NoCode == << >>

STATUS_CHOICES == {"pending", "processing", "completed", "failed",
                   "cancelled", "refunded", "disputed"}
PAYMENT_METHODS == {"mpesa", "bank_transfer"}
Amounts == {1000}
Secs == 1..MaxSecs

VARIABLES
    now,          \* timezone.now(), counted in callback requests received
    payments,     \* table payments_payment: sequence of rows, pk = index
    milestones,   \* table projects_projectmilestone of the project
    project,      \* the row of the project the milestones belong to
    wallets,      \* table payments_wallet, one row per user
    transactions, \* table payments_transaction
    disputes,     \* table payments_paymentdispute
    issued,       \* CheckoutRequestIDs the gateway has handed out
    cb,           \* per worker: the callback request it is handling
    bids,         \* table projects_bid of the bidding project
    bproject,     \* the row of the project that is open for bids
    lastAccept,   \* outcome of the latest accept_bid request
    wd,           \* per worker: the withdrawal request it is handling
    opening,      \* per user: the balance the wallet held at the start
    fmt,          \* a phone number handed to format_phone_number, and the result
    rt            \* per worker: the retry_payment request it is handling

vars == <<now, payments, milestones, project, wallets, transactions,
          disputes, issued, cb, bids, bproject, lastAccept, wd, opening, fmt,
          rt>>
payVars == <<now, payments, milestones, project, wallets, transactions,
             disputes, issued, cb>>
bidVars == <<bids, bproject, lastAccept>>
wdVars == <<wd, opening>>
phoneVars == <<fmt>>
rtVars == <<rt>>

PaymentIds == 1..Len(payments)

(***************************************************************************)
(* Payment.save: net_amount is recomputed from amount and service_fee on   *)
(* every save.                                                             *)
(***************************************************************************)
PaymentSave_NoFee(inst) == [inst EXCEPT !.net_amount = inst.amount]

PaymentSave(inst) == [inst EXCEPT !.net_amount = inst.amount - inst.service_fee]

\* payment.service_fee = payment.amount * Decimal('0.05')
ServiceFee(amount) == (amount * FeePercent) \div 100

(***************************************************************************)
(* CheckoutRequestIDs.  An id is modelled by the pair <<s, n>>: s stands   *)
(* for its first PrefixLen characters ("ws_CO_" and the time of the push), *)
(* n for the characters after them; << >> is the empty string.             *)
(***************************************************************************)
Prefix(id) == IF id = NoCode THEN NoCode ELSE <<id[1]>>

\* field__icontains=needle, for a needle already cut to PrefixLen characters
IContains(field, needle) ==
    \/ needle = NoCode
    \/ field # NoCode /\ field[1] = needle[1]


(***************************************************************************)
(* MpesaClient.stk_push: the push is accepted only when the phone number   *)
(* formats and the gateway answers ResponseCode '0'; every other outcome   *)
(* (invalid phone, rejection, RequestException such as a timeout) returns  *)
(* success = False with an error_message.                                  *)
(***************************************************************************)
PhoneKinds == {"", "valid", "invalid"}
GatewayAnswers == {"accepted", "rejected", "timeout"}

StkPushSuccess(phone, gw) == phone = "valid" /\ gw = "accepted"

StkPushError(phone, gw) ==
    IF phone # "valid" THEN "Invalid phone number format"
    ELSE IF gw = "timeout" THEN "Read timed out" ELSE "rejected by gateway"

\* the CheckoutRequestIDs the gateway may answer the next push with
FreshIds == {<<s, Cardinality(issued) + 1>> : s \in Secs}

(***************************************************************************)
(* PaymentForm: the querysets of __init__ and the checks of clean_amount   *)
(* and clean.  project = NoProject / milestone = NoMilestone is the blank  *)
(* choice of the optional field.                                           *)
(***************************************************************************)
MilestoneProject(m) == TheProject
ProjectHomeowner == Homeowner

PaymentFormValid(user, recipient, proj, ms, amount) ==
    /\ recipient # user
    /\ proj # NoProject =>
          /\ ProjectHomeowner = user
          /\ project.status \in {"assigned", "in_progress"}
    /\ (ms # NoMilestone /\ proj # NoProject) => MilestoneProject(ms) = proj
    /\ amount > 0 /\ amount <= MaxAmount
    /\ proj # NoProject => project.assigned_to = recipient

(***************************************************************************)
(* PaymentCreateView.form_valid (inside transaction.atomic): the row is    *)
(* created pending, then dispatched by payment method.                     *)
(***************************************************************************)
NewPayment(user, recipient, proj, ms, amount, method) ==
    PaymentSave([status |-> "pending", payer |-> user, recipient |-> recipient,
                 project |-> proj, milestone |-> ms, amount |-> amount,
                 service_fee |-> ServiceFee(amount),
                 net_amount |-> amount - ServiceFee(amount),
                 payment_method |-> method, mpesa_code |-> NoCode,
                 mpesa_receipt |-> "", failure_reason |-> "",
                 processed_at |-> 0, completed_at |-> 0, retry_count |-> 0])

\* a dispatch that leaves the row as created whenever the push is not accepted
Dispatch_FailureStaysPending(row, phone, gw, id) ==
    IF row.payment_method = "mpesa" /\ phone # "" /\ StkPushSuccess(phone, gw)
    THEN [row EXCEPT !.mpesa_code = id, !.status = "processing"]
    ELSE [row EXCEPT !.status = "pending"]

Dispatch(row, phone, gw, id) ==
    IF row.payment_method = "mpesa"
    THEN IF phone # ""
         THEN IF StkPushSuccess(phone, gw)
              THEN [row EXCEPT !.mpesa_code = id, !.status = "processing"]
              ELSE [row EXCEPT !.status = "failed",
                               !.failure_reason = StkPushError(phone, gw)]
         ELSE [row EXCEPT !.status = "failed",
                          !.failure_reason = "Phone number not provided"]
    ELSE [row EXCEPT !.status = "pending"]

PaymentCreate(user, recipient, proj, ms, amount, method, phone, gw, id) ==
    /\ PaymentFormValid(user, recipient, proj, ms, amount)
    /\ LET row == NewPayment(user, recipient, proj, ms, amount, method)
           pushed == method = "mpesa" /\ StkPushSuccess(phone, gw)
       IN /\ payments' = Append(payments, PaymentSave(Dispatch(row, phone, gw, id)))
          /\ issued' = IF pushed THEN issued \cup {id} ELSE issued
    /\ UNCHANGED <<now, milestones, project, wallets, transactions, disputes, cb>>
    /\ UNCHANGED bidVars
    /\ UNCHANGED <<wdVars, phoneVars, rtVars>>

(***************************************************************************)
(* handle_payment_status_change (pre_save of Payment): when the status of  *)
(* the instance differs from the stored row and is 'completed', the        *)
(* milestone of the payment is loaded, set 'paid' and saved.               *)
(***************************************************************************)
SignalMarksPaid(inst, old) ==
    /\ old.status # inst.status
    /\ inst.status = "completed"
    /\ inst.milestone # NoMilestone

MilestonesAfterSignal(inst, old) ==
    IF SignalMarksPaid(inst, old)
    THEN [milestones EXCEPT ![inst.milestone].status = "paid"]
    ELSE milestones

(***************************************************************************)
(* process_mpesa_callback.  CallbackIds are the CheckoutRequestIDs a       *)
(* payload can carry: an id the gateway issued, the empty string (field    *)
(* missing), an id that shares only its first PrefixLen characters with an *)
(* issued one (<<s, 0>>), and an id unknown altogether.                    *)
(***************************************************************************)
CallbackIds == issued \cup {NoCode, <<0, 0>>} \cup {<<s, 0>> : s \in Secs}
ResultCodes == {0, 1032}
CallbackKinds == {"valid", "bad_signature", "invalid_json"}
Receipt == "NLJ7RT61SV"

\* Payment.objects.get(mpesa_code__icontains=checkout_request_id[:20])
ByCheckoutId(cid) == {p \in PaymentIds : IContains(payments[p].mpesa_code, Prefix(cid))}

\* Payment.objects.get(transaction_reference__icontains=merchant_request_id[:20]);
\* transaction_reference is blank on every row (no form or view sets it)
ByMerchantId(mridEmpty) == {p \in PaymentIds : mridEmpty}

\* the rows the two lookups select; get() raises unless exactly one row matches
Lookup(cid, mridEmpty) ==
    IF ByCheckoutId(cid) # {} THEN ByCheckoutId(cid) ELSE ByMerchantId(mridEmpty)

\* lines 135-151 and 176-179: the changes made to the instance before save()
CallbackInstance(row, rc, t) ==
    IF rc = 0
    THEN [row EXCEPT !.status = "completed", !.mpesa_receipt = Receipt,
                     !.processed_at = t, !.completed_at = t]
    ELSE [row EXCEPT !.status = "failed", !.failure_reason = "ResultDesc",
                     !.processed_at = t]

\* a worker's request: pid the payment found, rc the ResultCode, t the time of
\* the request, seen the status of the row when it was loaded, inst / ms / proj
\* the model instances held in memory
NoMs == [status |-> "none", approved_at |-> 0]
NoProj == [status |-> "none", completed_at |-> 0, assigned_to |-> "none"]
NoInst == [status |-> "none"]
NoWorker == [pc |-> "idle", pid |-> 0, rc |-> 0, t |-> 0, seen |-> "none", inst |-> NoInst, ms |-> NoMs, proj |-> NoProj]

\* a handler that does not look at the signature
ValidateCallbackSignature_Skipped(kind) == TRUE

\* validate_callback_signature with MPESA_VALIDATION_KEY configured: the header
\* must be present and equal the HMAC-SHA256 of the raw body
ValidateCallbackSignature(kind) == kind # "bad_signature"

CbReceive(w, kind, cid, mridEmpty, rc) ==
    /\ cb[w].pc = "idle"
    /\ now <= MaxClock
    /\ IF /\ ValidateCallbackSignature(kind)
          /\ kind # "invalid_json"
          /\ Cardinality(Lookup(cid, mridEmpty)) = 1
       THEN LET p == CHOOSE q \in Lookup(cid, mridEmpty) : TRUE
            IN /\ cb' = [cb EXCEPT ![w] = [pc |-> "pre_save", pid |-> p, rc |-> rc,
                                           t |-> now, seen |-> payments[p].status,
                                           inst |-> CallbackInstance(payments[p], rc, now),
                                           ms |-> NoMs, proj |-> NoProj]]
               /\ now' = now + 1
       ELSE UNCHANGED <<cb, now>>
    /\ UNCHANGED <<payments, milestones, project, wallets, transactions, disputes, issued>>
    /\ UNCHANGED bidVars
    /\ UNCHANGED <<wdVars, phoneVars, rtVars>>

\* payment.save(), first half: the pre_save signal runs and commits its own write
CbPreSave(w) ==
    /\ cb[w].pc = "pre_save"
    /\ LET inst == cb[w].inst
           old == payments[cb[w].pid]
       IN /\ milestones' = MilestonesAfterSignal(inst, old)
          /\ cb' = [cb EXCEPT ![w].pc = "write_payment",
                              ![w].ms = IF SignalMarksPaid(inst, old)
                                        THEN milestones'[inst.milestone] ELSE NoMs]
    /\ UNCHANGED <<now, payments, project, wallets, transactions, disputes, issued>>
    /\ UNCHANGED bidVars
    /\ UNCHANGED <<wdVars, phoneVars, rtVars>>

\* payment.save(), second half: every column of the row is written from the instance
CbWritePayment(w) ==
    /\ cb[w].pc = "write_payment"
    /\ payments' = [payments EXCEPT ![cb[w].pid] = PaymentSave(cb[w].inst)]
    /\ cb' = [cb EXCEPT ![w] =
                 IF /\ cb[w].rc = 0
                    /\ cb[w].inst.project # NoProject
                    /\ cb[w].inst.milestone # NoMilestone
                 THEN [cb[w] EXCEPT !.pc = "save_milestone"]
                 ELSE NoWorker]
    /\ UNCHANGED <<now, milestones, project, wallets, transactions, disputes, issued>>
    /\ UNCHANGED bidVars
    /\ UNCHANGED <<wdVars, phoneVars, rtVars>>

\* lines 156-160: payment.project is loaded, the milestone is saved 'paid'
CbSaveMilestone(w) ==
    /\ cb[w].pc = "save_milestone"
    /\ LET m == cb[w].inst.milestone
           loaded == IF cb[w].ms = NoMs THEN milestones[m] ELSE cb[w].ms
           saved == [loaded EXCEPT !.status = "paid", !.approved_at = cb[w].t]
       IN /\ milestones' = [milestones EXCEPT ![m] = saved]
          /\ cb' = [cb EXCEPT ![w].pc = "check_project", ![w].ms = saved,
                              ![w].proj = project]
    /\ UNCHANGED <<now, payments, project, wallets, transactions, disputes, issued>>
    /\ UNCHANGED bidVars
    /\ UNCHANGED <<wdVars, phoneVars, rtVars>>

\* lines 162-171: when every milestone row is 'paid' the project is saved completed
AllPaid == \A m \in MilestoneIds : milestones[m].status = "paid"

CbCheckProject(w) ==
    /\ cb[w].pc = "check_project"
    /\ IF AllPaid
       THEN project' = [cb[w].proj EXCEPT !.status = "completed", !.completed_at = cb[w].t]
       ELSE UNCHANGED project
    /\ cb' = [cb EXCEPT ![w] = NoWorker]
    /\ UNCHANGED <<now, payments, milestones, wallets, transactions, disputes, issued>>
    /\ UNCHANGED bidVars
    /\ UNCHANGED <<wdVars, phoneVars, rtVars>>

\* lines 197-202: an exception at any later step ends the request with the
\* writes already committed left in place (there is no transaction around them)
CbFail(w) ==
    /\ cb[w].pc \in {"pre_save", "write_payment", "save_milestone", "check_project"}
    /\ cb' = [cb EXCEPT ![w] = NoWorker]
    /\ UNCHANGED <<now, payments, milestones, project, wallets, transactions, disputes, issued>>
    /\ UNCHANGED bidVars
    /\ UNCHANGED <<wdVars, phoneVars, rtVars>>

(***************************************************************************)
(* check_payment_status: the status poll.                                  *)
(***************************************************************************)
QueryResults == {"0", "1032", "error"}

CheckPaymentStatus(user, p, res) ==
    /\ p \in PaymentIds
    /\ user \in {payments[p].payer, payments[p].recipient}
    /\ IF /\ payments[p].payment_method = "mpesa"
          /\ payments[p].mpesa_code # NoCode
          /\ res = "0"
       THEN LET inst == [payments[p] EXCEPT !.status = "completed"]
            IN /\ milestones' = MilestonesAfterSignal(inst, payments[p])
               /\ payments' = [payments EXCEPT ![p] = PaymentSave(inst)]
       ELSE UNCHANGED <<payments, milestones>>
    /\ UNCHANGED <<now, project, wallets, transactions, disputes, issued, cb>>
    /\ UNCHANGED bidVars
    /\ UNCHANGED <<wdVars, phoneVars, rtVars>>

(***************************************************************************)
(* retry_payment.                                                          *)
(***************************************************************************)
RetryAllowed(row) == row.status \in {"failed", "cancelled"}

RetryPayment(user, p, phone, gw, id) ==
    /\ p \in PaymentIds
    /\ user = payments[p].payer
    /\ payments[p].retry_count < MaxRetries
    /\ IF /\ RetryAllowed(payments[p])
          /\ payments[p].payment_method = "mpesa"
          /\ phone # ""
          /\ StkPushSuccess(phone, gw)
       THEN /\ payments' = [payments EXCEPT ![p] =
                   PaymentSave([payments[p] EXCEPT !.mpesa_code = id,
                                                   !.status = "processing",
                                                   !.retry_count = @ + 1])]
            /\ issued' = issued \cup {id}
       ELSE UNCHANGED <<payments, issued>>
    /\ UNCHANGED <<now, milestones, project, wallets, transactions, disputes, cb>>
    /\ UNCHANGED bidVars
    /\ UNCHANGED <<wdVars, phoneVars, rtVars>>

(***************************************************************************)
(* retry_payment as the requests of two workers.  The view runs in         *)
(* autocommit mode without select_for_update: the payment is loaded and    *)
(* its status tested (lines 661-668), the push is sent to the gateway      *)
(* (675-680), and on success the instance is changed and saved (683-687).  *)
(***************************************************************************)
NoRetry == [pc |-> "idle", pid |-> 0, inst |-> NoInst]

RetryLoad(w, user, p) ==
    /\ rt[w].pc = "idle"
    /\ p \in PaymentIds
    /\ user = payments[p].payer
    /\ payments[p].retry_count < MaxRetries
    /\ IF RetryAllowed(payments[p]) /\ payments[p].payment_method = "mpesa"
       THEN rt' = [rt EXCEPT ![w] = [pc |-> "push", pid |-> p, inst |-> payments[p]]]
       ELSE UNCHANGED rt
    /\ UNCHANGED <<payVars, bidVars, wdVars, phoneVars>>

RetryPush(w, phone, gw, id) ==
    /\ rt[w].pc = "push"
    /\ IF phone # "" /\ StkPushSuccess(phone, gw)
       THEN /\ issued' = issued \cup {id}
            /\ rt' = [rt EXCEPT ![w].pc = "save",
                                ![w].inst = [@ EXCEPT !.mpesa_code = id,
                                                      !.status = "processing",
                                                      !.retry_count = @ + 1]]
       ELSE /\ rt' = [rt EXCEPT ![w] = NoRetry]
            /\ UNCHANGED issued
    /\ UNCHANGED <<now, payments, milestones, project, wallets, transactions, disputes, cb>>
    /\ UNCHANGED <<bidVars, wdVars, phoneVars>>

RetrySave(w) ==
    /\ rt[w].pc = "save"
    /\ payments' = [payments EXCEPT ![rt[w].pid] = PaymentSave(rt[w].inst)]
    /\ rt' = [rt EXCEPT ![w] = NoRetry]
    /\ UNCHANGED <<now, milestones, project, wallets, transactions, disputes, issued, cb>>
    /\ UNCHANGED <<bidVars, wdVars, phoneVars>>

(***************************************************************************)
(* DisputeForm.clean and DisputeCreateView.form_valid; the admin action    *)
(* PaymentDisputeAdmin.mark_as_resolved.  opened_on is no column: it       *)
(* records the status the payment had when the dispute was opened.         *)
(***************************************************************************)
\* a form that accepts any user as raised_against
DisputeFormValid_AnyParty(user, p, against) ==
    /\ p \in PaymentIds
    /\ user \in {payments[p].payer, payments[p].recipient}

DisputeFormValid(user, p, against) ==
    /\ p \in PaymentIds
    /\ user \in {payments[p].payer, payments[p].recipient}
    /\ against # user
    /\ against \in {payments[p].payer, payments[p].recipient}

DisputeCreate(user, p, against) ==
    /\ Len(disputes) < MaxDisputes
    /\ DisputeFormValid(user, p, against)
    /\ disputes' = Append(disputes, [payment |-> p, raised_by |-> user,
                                     raised_against |-> against, status |-> "open",
                                     resolved_by |-> "none", resolved_at |-> 0,
                                     created_at |-> now,
                                     opened_on |-> payments[p].status])
    /\ UNCHANGED <<now, payments, milestones, project, wallets, transactions, issued, cb>>
    /\ UNCHANGED bidVars
    /\ UNCHANGED <<wdVars, phoneVars, rtVars>>

MarkAsResolved(d) ==
    /\ d \in 1..Len(disputes)
    /\ disputes' = [disputes EXCEPT ![d].status = "resolved", ![d].resolved_by = "admin"]
    /\ UNCHANGED <<now, payments, milestones, project, wallets, transactions, issued, cb>>
    /\ UNCHANGED bidVars
    /\ UNCHANGED <<wdVars, phoneVars, rtVars>>

(***************************************************************************)
(* The projects app: bids on a posted project.                             *)
(***************************************************************************)
Artisans == {"artisan1", "artisan2"}
BidAmounts == {6000, 7000}
BidIds == 1..Len(bids)

\* the columns of the Bid model
BidFields == {"project", "artisan", "amount", "timeline", "proposal", "notes",
              "status", "submitted_at", "updated_at", "accepted_at"}

\* the columns of the Project model that BidAcceptView assigns
ProjectFields == {"status", "assigned_to", "assigned_at", "final_price",
                  "final_timeline", "bid_count", "completed_at"}

\* QuerySet.update(**kwargs) raises FieldDoesNotExist for a name that is no column
UpdateRaises(names) == ~(names \subseteq BidFields)

\* BidCreateView.can_bid
CanBid(user) ==
    /\ user \in Artisans
    /\ bproject.status = "posted"
    /\ \A b \in BidIds : bids[b].artisan # user

(***************************************************************************)
(* BidCreateView.form_valid: bid.save() fires update_project_bid_count     *)
(* (post_save, created), which adds 1 to bid_count of the same Project     *)
(* instance and saves it; the view then adds 1 again and saves.            *)
(***************************************************************************)
BidCreate(user, amount) ==
    /\ CanBid(user)
    /\ bids' = Append(bids, [artisan |-> user, amount |-> amount,
                             status |-> "pending", accepted_at |-> 0])
    /\ bproject' = [bproject EXCEPT !.bid_count = (@ + 1) + 1]
    /\ UNCHANGED lastAccept
    /\ UNCHANGED payVars
    /\ UNCHANGED <<wdVars, phoneVars, rtVars>>

\* BidWithdrawView.post (transaction.atomic)
BidWithdraw(user, b) ==
    /\ b \in BidIds
    /\ user = bids[b].artisan
    /\ IF bids[b].status # "pending"
       THEN UNCHANGED <<bids, bproject>>
       ELSE /\ bids' = [bids EXCEPT ![b].status = "withdrawn"]
            /\ bproject' = [bproject EXCEPT !.bid_count = @ - 1]
    /\ UNCHANGED lastAccept
    /\ UNCHANGED payVars
    /\ UNCHANGED <<wdVars, phoneVars, rtVars>>

\* BidRejectView.post
BidReject(b) ==
    /\ b \in BidIds
    /\ IF bids[b].status # "pending"
       THEN UNCHANGED bids
       ELSE bids' = [bids EXCEPT ![b].status = "rejected"]
    /\ UNCHANGED <<bproject, lastAccept>>
    /\ UNCHANGED payVars
    /\ UNCHANGED <<wdVars, phoneVars, rtVars>>

\* ProjectDeleteView.delete: a draft or posted project is cancelled
ProjectCancel ==
    /\ bproject.status \in {"draft", "posted"}
    /\ bproject' = [bproject EXCEPT !.status = "cancelled"]
    /\ UNCHANGED <<bids, lastAccept>>
    /\ UNCHANGED payVars
    /\ UNCHANGED <<wdVars, phoneVars, rtVars>>

(***************************************************************************)
(* BidAcceptView.post (transaction.atomic).  The three writes of lines     *)
(* 626-640, in order; final_budget is no column of Project, so the save    *)
(* leaves final_price as it was; the sibling update names rejected_at.     *)
(* An exception leaves the block and the transaction is rolled back.       *)
(***************************************************************************)
AcceptProject(b) ==
    [bproject EXCEPT !.assigned_to = bids[b].artisan, !.assigned_at = now,
                     !.status = "assigned",
                     !.final_price = IF "final_budget" \in ProjectFields
                                     THEN bids[b].amount ELSE @]

AcceptSiblingUpdate == {"status", "rejected_at"}

AcceptBids(b) ==
    [c \in BidIds |->
        IF c = b
        THEN [bids[c] EXCEPT !.status = "accepted", !.accepted_at = now]
        ELSE [bids[c] EXCEPT !.status = "rejected"]]

AcceptOutcome(b) ==
    IF bproject.status # "posted" THEN "refused"
    ELSE IF UpdateRaises(AcceptSiblingUpdate) THEN "error"
    ELSE "accepted"

BidAccept(b) ==
    /\ b \in BidIds
    /\ lastAccept' = [outcome |-> AcceptOutcome(b), bid |-> b,
                      project_status |-> bproject.status,
                      bid_status |-> bids[b].status]
    /\ IF AcceptOutcome(b) = "accepted"
       THEN /\ bproject' = AcceptProject(b)
            /\ bids' = AcceptBids(b)
       ELSE UNCHANGED <<bids, bproject>>
    /\ UNCHANGED payVars
    /\ UNCHANGED <<wdVars, phoneVars, rtVars>>

NextBid ==
    \/ \E user \in Artisans, amount \in BidAmounts : BidCreate(user, amount)
    \/ \E user \in Artisans, b \in BidIds : BidWithdraw(user, b)
    \/ \E b \in BidIds : BidReject(b)
    \/ \E b \in BidIds : BidAccept(b)
    \/ ProjectCancel

(***************************************************************************)
(* WalletWithdrawalForm.clean_amount and InitiateWithdrawalView.form_valid. *)
(* The form is validated against the committed wallet row; form_valid then *)
(* runs inside transaction.atomic with the wallet row locked by            *)
(* select_for_update, so its writes become visible together at commit.     *)
(***************************************************************************)
MinWithdrawal == 100
MaxWithdrawal == 50000
WithdrawAmounts == {50, 20000, 40000, 60000}
WithdrawMethods == {"mpesa", "bank"}
OpeningBalances == {30000, 40000}
OpeningHolds == {0, 10000}

\* Wallet.available_balance
AvailableBalance(row) == row.balance - row.hold_balance

CleanAmount(user, amount) ==
    /\ amount > 0
    /\ amount >= MinWithdrawal
    /\ ~(amount > AvailableBalance(wallets[user]))
    /\ ~(amount > MaxWithdrawal)

NoRow == [balance |-> 0, hold_balance |-> 0, total_withdrawn |-> 0]
NoRequest == [pc |-> "idle", user |-> "none", amount |-> 0, method |-> "none",
              row |-> NoRow, result |-> "none"]

Locked_NoSelectForUpdate == {}

\* the wallet rows locked by a request that has not committed yet
Locked == {wd[w].user : w \in {v \in Workers : wd[v].pc = "locked"}}

InsufficientFunds_Unchecked(amount, row) == FALSE

\* lines 454-459: if amount > wallet.available_balance
InsufficientFunds(amount, row) == amount > AvailableBalance(row)

WithdrawalTransaction_SameBalance(user, row, amount) ==
    [wallet |-> user, type |-> "withdrawal", amount |-> amount,
     previous_balance |-> row.balance, new_balance |-> row.balance]

\* lines 462-471: Transaction.objects.create(...)
WithdrawalTransaction(user, row, amount) ==
    [wallet |-> user, type |-> "withdrawal", amount |-> amount,
     previous_balance |-> row.balance, new_balance |-> row.balance - amount]

\* form.is_valid(): an invalid form ends the request
WithdrawClean(w, user, amount, method) ==
    /\ wd[w].pc = "idle"
    /\ Len(transactions) < MaxWithdrawals
    /\ wd' = [wd EXCEPT ![w] =
                 IF CleanAmount(user, amount)
                 THEN [NoRequest EXCEPT !.pc = "valid", !.user = user,
                                        !.amount = amount, !.method = method]
                 ELSE [NoRequest EXCEPT !.user = user, !.amount = amount,
                                        !.method = method, !.result = "invalid"]]
    /\ UNCHANGED <<payVars, bidVars, opening, phoneVars, rtVars>>

\* lines 451-459: the row is locked and read; the balance is checked again
WithdrawLock(w) ==
    /\ wd[w].pc = "valid"
    /\ wd[w].user \notin Locked
    /\ LET row == wallets[wd[w].user]
       IN wd' = [wd EXCEPT ![w] =
                    IF InsufficientFunds(wd[w].amount, row)
                    THEN [wd[w] EXCEPT !.pc = "idle", !.result = "insufficient"]
                    ELSE [wd[w] EXCEPT !.pc = "locked", !.row = row]]
    /\ UNCHANGED <<payVars, bidVars, opening, phoneVars, rtVars>>

\* lines 461-476 and the commit: one Transaction row, the wallet row saved
WithdrawCommit(w) ==
    /\ wd[w].pc = "locked"
    /\ LET row == wd[w].row
           amount == wd[w].amount
       IN /\ transactions' = Append(transactions,
                                       WithdrawalTransaction(wd[w].user, row, amount))
          /\ wallets' = [wallets EXCEPT ![wd[w].user] =
                 [row EXCEPT !.balance = row.balance - amount,
                             !.total_withdrawn = row.total_withdrawn + amount]]
    /\ wd' = [wd EXCEPT ![w] = [wd[w] EXCEPT !.pc = "idle", !.result = "success"]]
    /\ UNCHANGED <<now, payments, milestones, project, disputes, issued, cb>>
    /\ UNCHANGED <<bidVars, opening, phoneVars, rtVars>>

\* lines 497-499: an exception inside the atomic block rolls everything back
WithdrawAbort(w) ==
    /\ wd[w].pc = "locked"
    /\ wd' = [wd EXCEPT ![w] = [wd[w] EXCEPT !.pc = "idle", !.result = "error"]]
    /\ UNCHANGED <<payVars, bidVars, opening, phoneVars, rtVars>>

NextWallet ==
    \/ \E w \in Workers, user \in Users, amount \in WithdrawAmounts,
          method \in WithdrawMethods : WithdrawClean(w, user, amount, method)
    \/ \E w \in Workers : WithdrawLock(w)
    \/ \E w \in Workers : WithdrawCommit(w)
    \/ \E w \in Workers : WithdrawAbort(w)

(***************************************************************************)
(* MpesaClient.format_phone_number.  A phone number is the sequence of its *)
(* characters; the result is the formatted number, or None.                *)
(***************************************************************************)
MaxFill == 13
Digits == {"0", "1", "2", "3", "4", "5", "6", "7", "8", "9"}
None == [valid |-> FALSE, number |-> << >>]
Formatted(digits) == [valid |-> TRUE, number |-> digits]

\* re.sub(r'\D', '', phone_number)
IsDigit(c) == c \in Digits
StripNonDigits(s) == SelectSeq(s, IsDigit)

StartsWith(s, prefix) ==
    Len(s) >= Len(prefix) /\ SubSeq(s, 1, Len(prefix)) = prefix

FormatPhoneNumber_NoUpperLimit(s) ==
    LET digits == StripNonDigits(s)
    IN IF Len(digits) < 9 THEN None
       ELSE IF StartsWith(digits, <<"0">>)
            THEN Formatted(<<"2", "5", "4">> \o Tail(digits))
       ELSE IF StartsWith(digits, <<"2", "5", "4">>) THEN Formatted(digits)
       ELSE IF Len(digits) = 9 THEN Formatted(<<"2", "5", "4">> \o digits)
       ELSE None

FormatPhoneNumber(s) ==
    LET digits == StripNonDigits(s)
    IN IF Len(digits) < 9 \/ Len(digits) > 12 THEN None
       ELSE IF StartsWith(digits, <<"0">>)
            THEN Formatted(<<"2", "5", "4">> \o Tail(digits))
       ELSE IF StartsWith(digits, <<"2", "5", "4">>) THEN Formatted(digits)
       ELSE IF Len(digits) = 9 THEN Formatted(<<"2", "5", "4">> \o digits)
       ELSE None

\* the numbers of test_phone_number_formatting, and numbers made of a prefix
\* followed by a run of 7s
Local9 == <<"7", "1", "2", "3", "4", "5", "6", "7", "8">>
TestPhones ==
    {<<"0">> \o Local9, <<"2", "5", "4">> \o Local9, <<"+", "2", "5", "4">> \o Local9,
     Local9, Tail(Local9), <<"2", "5", "4">> \o Local9 \o <<"9", "0">>}
PhonePrefixes ==
    {<< >>, <<"0">>, <<"+">>, <<"2", "5", "4">>, <<"+", "2", "5", "4">>,
     <<"0", "0">>, <<"1">>, <<"2", "5">>, <<"0", "-">>}
PhoneInputs ==
    TestPhones \cup {pre \o [i \in 1..n |-> "7"] : pre \in PhonePrefixes, n \in 0..MaxFill}

NoPhone == [input |-> << >>, result |-> None, done |-> FALSE]

FormatPhone ==
    /\ ~fmt.done
    /\ fmt' = [fmt EXCEPT !.result = FormatPhoneNumber(fmt.input), !.done = TRUE]
    /\ UNCHANGED <<payVars, bidVars, wdVars, rtVars>>

\* the client is handed another number
EnterPhone(s) ==
    /\ fmt.done
    /\ fmt' = [input |-> s, result |-> None, done |-> FALSE]
    /\ UNCHANGED <<payVars, bidVars, wdVars, rtVars>>

NextPhone ==
    \/ FormatPhone
    \/ \E s \in PhoneInputs : EnterPhone(s)

(***************************************************************************)
(* Next-state relations.  NextPay: one payment, requests handled one at a  *)
(* time (the callback handler still commits write by write), the payer    *)
(* being the homeowner.  NextDispute: one payment of the homeowner to the  *)
(* artisan, its callbacks, retries and disputes.  NextRace: one accepted   *)
(* M-Pesa payment and two callback requests in flight.  NextTwo: two       *)
(* M-Pesa payments of the project's milestones, confirmed by success       *)
(* callbacks.                                                              *)
(***************************************************************************)
AnyPaymentCreate(cap) ==
    \E user \in {ProjectHomeowner}, recipient \in Users, proj \in {NoProject, TheProject},
       ms \in MilestoneIds \cup {NoMilestone}, amount \in Amounts,
       method \in PAYMENT_METHODS, phone \in PhoneKinds, gw \in GatewayAnswers,
       id \in FreshIds :
          /\ Len(payments) < cap
          /\ PaymentCreate(user, recipient, proj, ms, amount, method, phone, gw, id)

AnyCallback(workers) ==
    \/ \E w \in workers, kind \in CallbackKinds, cid \in CallbackIds,
          mridEmpty \in BOOLEAN, rc \in ResultCodes :
             CbReceive(w, kind, cid, mridEmpty, rc)
    \/ \E w \in workers : CbPreSave(w)
    \/ \E w \in workers : CbWritePayment(w)
    \/ \E w \in workers : CbSaveMilestone(w)
    \/ \E w \in workers : CbCheckProject(w)
    \/ \E w \in workers : CbFail(w)

AnyPoll ==
    \E user \in Users, p \in PaymentIds, res \in QueryResults :
       CheckPaymentStatus(user, p, res)

AnyRetry ==
    \E user \in Users, p \in PaymentIds, phone \in PhoneKinds,
       gw \in GatewayAnswers, id \in FreshIds :
          RetryPayment(user, p, phone, gw, id)

AnyDispute ==
    \/ \E user \in Users, p \in PaymentIds, against \in Users :
          DisputeCreate(user, p, against)
    \/ \E d \in 1..Len(disputes) : MarkAsResolved(d)

NextPay ==
    \/ AnyPaymentCreate(OnePayment)
    \/ AnyCallback({"w1"})
    \/ AnyPoll
    \/ AnyRetry

NextDispute ==
    \/ \E ms \in MilestoneIds \cup {NoMilestone}, method \in PAYMENT_METHODS,
          gw \in GatewayAnswers, id \in FreshIds :
             /\ Len(payments) < OnePayment
             /\ PaymentCreate(Homeowner, Artisan, TheProject, ms, 1000, method,
                              "valid", gw, id)
    \/ \E cid \in issued \cup {NoCode}, rc \in ResultCodes :
          CbReceive("w1", "valid", cid, FALSE, rc)
    \/ CbPreSave("w1")
    \/ CbWritePayment("w1")
    \/ CbSaveMilestone("w1")
    \/ CbCheckProject("w1")
    \/ CbFail("w1")
    \/ AnyRetry
    \/ AnyDispute

\* one payment and the disputes the two parties and a third user try to open on
\* it, each against any of the three
Outsider == "outsider"
Parties == Users \cup {Outsider}

NextParty ==
    \/ AnyPaymentCreate(OnePayment)
    \/ \E user \in Parties, p \in PaymentIds, against \in Parties :
          DisputeCreate(user, p, against)
    \/ \E d \in 1..Len(disputes) : MarkAsResolved(d)

\* payments whose callback is never delivered: the gateway answers every status
\* query with a failure result (1032, cancelled by the customer) or not at all
PollFailure ==
    \E user \in Users, p \in PaymentIds : CheckPaymentStatus(user, p, "1032")

NextStuck ==
    \/ AnyPaymentCreate(MaxPayments)
    \/ PollFailure
    \/ \E user \in Users, p \in PaymentIds : CheckPaymentStatus(user, p, "error")
    \/ AnyRetry

\* one M-Pesa payment whose push failed at creation, and the retry requests of
\* its payer handled by two workers at once
NextRetry ==
    \/ \E proj \in {NoProject, TheProject}, ms \in MilestoneIds \cup {NoMilestone},
          phone \in PhoneKinds, gw \in {"rejected", "timeout"}, id \in FreshIds :
             /\ Len(payments) < OnePayment
             /\ PaymentCreate(Homeowner, Artisan, proj, ms, 1000, "mpesa", phone, gw, id)
    \/ \E w \in Workers, user \in Users, p \in PaymentIds : RetryLoad(w, user, p)
    \/ \E w \in Workers, phone \in PhoneKinds, gw \in GatewayAnswers, id \in FreshIds :
          RetryPush(w, phone, gw, id)
    \/ \E w \in Workers : RetrySave(w)

NextRace ==
    \/ \E ms \in MilestoneIds \cup {NoMilestone}, id \in FreshIds :
          /\ Len(payments) < OnePayment
          /\ PaymentCreate(Homeowner, Artisan, TheProject, ms, 1000, "mpesa",
                           "valid", "accepted", id)
    \/ \E w \in Workers, cid \in issued, rc \in ResultCodes :
          CbReceive(w, "valid", cid, FALSE, rc)
    \/ \E w \in Workers : CbPreSave(w)
    \/ \E w \in Workers : CbWritePayment(w)
    \/ \E w \in Workers : CbSaveMilestone(w)
    \/ \E w \in Workers : CbCheckProject(w)
    \/ \E w \in Workers : CbFail(w)

NextTwo ==
    \/ \E ms \in MilestoneIds, id \in FreshIds :
          /\ Len(payments) < MaxPayments
          /\ PaymentCreate(Homeowner, Artisan, TheProject, ms, 1000, "mpesa",
                           "valid", "accepted", id)
    \/ \E cid \in issued : CbReceive("w1", "valid", cid, FALSE, 0)
    \/ CbPreSave("w1")
    \/ CbWritePayment("w1")
    \/ CbSaveMilestone("w1")
    \/ CbCheckProject("w1")

\* two M-Pesa payments of the project's milestones, completed by success
\* callbacks or by the status poll
NextAuto ==
    \/ NextTwo
    \/ \E user \in Users, p \in PaymentIds : CheckPaymentStatus(user, p, "0")

\* two M-Pesa payments, one per milestone, and their success callbacks handled
\* by two workers at once
NextConc ==
    \/ \E id \in FreshIds :
          /\ Len(payments) < MaxPayments
          /\ PaymentCreate(Homeowner, Artisan, TheProject, Len(payments) + 1, 1000,
                           "mpesa", "valid", "accepted", id)
    \/ \E w \in Workers, cid \in issued : CbReceive(w, "valid", cid, FALSE, 0)
    \/ \E w \in Workers : CbPreSave(w)
    \/ \E w \in Workers : CbWritePayment(w)
    \/ \E w \in Workers : CbSaveMilestone(w)
    \/ \E w \in Workers : CbCheckProject(w)

InitPay ==
    /\ now = 1
    /\ payments = << >>
    /\ milestones = [m \in MilestoneIds |-> [status |-> "pending", approved_at |-> 0]]
    /\ project = [status |-> "in_progress", completed_at |-> 0, assigned_to |-> Artisan]
    /\ wallets = [u \in Users |-> [balance |-> 0, hold_balance |-> 0, total_withdrawn |-> 0]]
    /\ transactions = << >>
    /\ disputes = << >>
    /\ issued = {}
    /\ cb = [w \in Workers |-> NoWorker]

InitBid ==
    /\ bids = << >>
    /\ bproject = [status |-> "posted", assigned_to |-> "none", assigned_at |-> 0,
                   final_price |-> 0, bid_count |-> 0]
    /\ lastAccept = [outcome |-> "none", bid |-> 0, project_status |-> "none",
                     bid_status |-> "none"]

InitWd ==
    /\ wd = [w \in Workers |-> NoRequest]
    /\ opening = [u \in Users |-> 0]
    /\ fmt = NoPhone
    /\ rt = [w \in Workers |-> NoRetry]

Init == InitPay /\ InitBid /\ InitWd

\* wallets that hold funds at the start
InitWallet ==
    /\ now = 1
    /\ payments = << >>
    /\ milestones = [m \in MilestoneIds |-> [status |-> "pending", approved_at |-> 0]]
    /\ project = [status |-> "in_progress", completed_at |-> 0, assigned_to |-> Artisan]
    /\ \E b \in [Users -> OpeningBalances], h \in [Users -> OpeningHolds] :
          /\ wallets = [u \in Users |-> [balance |-> b[u], hold_balance |-> h[u],
                                         total_withdrawn |-> 0]]
          /\ opening = b
    /\ transactions = << >>
    /\ disputes = << >>
    /\ issued = {}
    /\ cb = [w \in Workers |-> NoWorker]
    /\ wd = [w \in Workers |-> NoRequest]
    /\ fmt = NoPhone
    /\ rt = [w \in Workers |-> NoRetry]
    /\ InitBid



Spec == Init /\ [][NextPay]_vars

SpecDispute == Init /\ [][NextDispute]_vars
SpecParty == Init /\ [][NextParty]_vars

\* the payment page keeps polling check_payment_status
SpecStuck == Init /\ [][NextStuck]_vars /\ WF_vars(PollFailure)

SpecRetry == Init /\ [][NextRetry]_vars

SpecRace == Init /\ [][NextRace]_vars

SpecTwo == Init /\ [][NextTwo]_vars
SpecAuto == Init /\ [][NextAuto]_vars
SpecConc == Init /\ [][NextConc]_vars

SpecBid == Init /\ [][NextBid]_vars
SpecWallet == InitWallet /\ [][NextWallet]_vars
SpecPhone == Init /\ [][NextPhone]_vars
(***************************************************************************)
(* Properties.                                                             *)
(***************************************************************************)
Terminal == {"completed", "failed", "refunded"}
Idle == \A w \in Workers : cb[w].pc = "idle"

\* the Transactions that credit wallet u with amount a
Credits(u, a) ==
    {i \in 1..Len(transactions) :
        /\ transactions[i].wallet = u
        /\ transactions[i].amount = a
        /\ transactions[i].new_balance = transactions[i].previous_balance + a}

\* C1: the same success callback delivered again (after or while another
\* delivery of it is handled) changes nothing: a success delivery whose payment
\* write finds the row already completed leaves the Payment rows as they are.
C1_ExactlyOnce ==
    [][\A w \in Workers :
          (/\ cb[w].pc = "write_payment"
           /\ cb'[w].pc # "write_payment"
           /\ cb[w].rc = 0
           /\ payments[cb[w].pid].status = "completed")
          => payments' = payments]_vars

\* C2: a callback that arrived for a Payment in a terminal status changes no
\* Payment, Milestone, Project or Wallet in any of its steps.
C2_TerminalNoop ==
    [][\A w \in Workers :
          (cb[w].pc # "idle" /\ cb[w].seen \in Terminal /\ cb'[w] # cb[w])
          => UNCHANGED <<payments, milestones, project, wallets>>]_vars

\* C3: once a success callback has been processed, the Payment is completed with
\* the receipt recorded, the recipient's Wallet holds the net amount with a
\* Transaction recording the credit, and the Payment's Milestone is paid.
C3_SuccessEffects ==
    \A p \in PaymentIds :
        (Idle /\ payments[p].status = "completed" /\ payments[p].processed_at # 0)
        => /\ payments[p].mpesa_receipt = Receipt
           /\ wallets[payments[p].recipient].balance >= payments[p].net_amount
           /\ Credits(payments[p].recipient, payments[p].net_amount) # {}
           /\ payments[p].milestone # NoMilestone
                 => milestones[payments[p].milestone].status = "paid"

\* C4: with no callback in flight (processed to its end or failed part-way),
\* every Milestone that is paid has a completed Payment tied to it.
C4_AllOrNothing ==
    Idle => \A m \in MilestoneIds :
               milestones[m].status = "paid"
               => \E p \in PaymentIds : /\ payments[p].milestone = m
                                        /\ payments[p].status = "completed"

\* C5: every change of the status of a Payment row is a transition of the
\* payment state machine.
Transitions ==
    {<<"pending", "processing">>, <<"processing", "completed">>,
     <<"pending", "failed">>, <<"processing", "failed">>,
     <<"failed", "processing">>, <<"cancelled", "processing">>,
     <<"completed", "refunded">>, <<"pending", "disputed">>,
     <<"processing", "disputed">>, <<"pending", "cancelled">>}

C5_StateMachine ==
    [][\A p \in PaymentIds :
          payments'[p].status # payments[p].status
          => <<payments[p].status, payments'[p].status>> \in Transitions]_vars

\* C6: while a dispute opened on a pending or processing Payment is unresolved,
\* no step of a callback that arrived after the dispute was opened completes
\* that Payment.
C6_DisputeFreezesPayout ==
    [][\A d \in 1..Len(disputes), w \in Workers :
          (/\ disputes[d].opened_on \in {"pending", "processing"}
           /\ disputes[d].status # "resolved"
           /\ cb[w].pc # "idle"
           /\ cb[w].pid = disputes[d].payment
           /\ cb[w].t >= disputes[d].created_at
           /\ cb'[w] # cb[w])
          => (payments'[disputes[d].payment].status = "completed"
              => payments[disputes[d].payment].status = "completed")]_vars

\* C7: a Payment is never created for a Milestone that is already paid, and at
\* most one Payment of a Milestone is completed.
CompletedFor(m) ==
    {p \in PaymentIds : payments[p].milestone = m /\ payments[p].status = "completed"}

C7_MilestoneNotPaidTwice ==
    /\ [](\A m \in MilestoneIds : Cardinality(CompletedFor(m)) <= 1)
    /\ [][Len(payments') > Len(payments)
          => LET m == payments'[Len(payments')].milestone
             IN m # NoMilestone => milestones[m].status # "paid"]_vars

\* C8: at most one Bid is accepted, and after accept_bid of a pending Bid of a
\* posted Project exactly one Bid is accepted and every other Bid is rejected.
Accepted == {b \in BidIds : bids[b].status = "accepted"}
ValidAccept == lastAccept.project_status = "posted" /\ lastAccept.bid_status = "pending"

C8_BidExclusivity ==
    /\ Cardinality(Accepted) <= 1
    /\ ValidAccept => /\ Accepted = {lastAccept.bid}
                      /\ \A b \in BidIds \ Accepted : bids[b].status = "rejected"

\* C9: after accept_bid of a pending Bid of a posted Project, the Project is
\* assigned to the Bid's artisan at the Bid's amount with assigned_at stamped,
\* and the Bid is accepted with accepted_at stamped.
C9_AcceptPostState ==
    ValidAccept => /\ bproject.status = "assigned"
                   /\ bproject.assigned_to = bids[lastAccept.bid].artisan
                   /\ bproject.final_price = bids[lastAccept.bid].amount
                   /\ bproject.assigned_at # 0
                   /\ bids[lastAccept.bid].status = "accepted"
                   /\ bids[lastAccept.bid].accepted_at # 0

\* C10: accept_bid succeeds only for a pending Bid of a posted Project; any
\* other request is refused and leaves the Project and its Bids unchanged.
C10_AcceptPrecondition ==
    [][lastAccept' # lastAccept
       => /\ lastAccept'.outcome = "accepted"
                => (lastAccept'.project_status = "posted"
                    /\ lastAccept'.bid_status = "pending")
          /\ ~(lastAccept'.project_status = "posted"
               /\ lastAccept'.bid_status = "pending")
                => (lastAccept'.outcome = "refused"
                    /\ UNCHANGED <<bids, bproject>>)]_vars
\* C11: with no callback in flight, the Project is completed if and only if
\* every one of its Milestones is paid, whichever path completed the Payments.
C11_AutoCompletion ==
    Idle => (project.status = "completed" <=> AllPaid)

\* C12: once the Project is completed by one of two concurrent success
\* callbacks, no later step writes the Project again (completed_at is written
\* once), and with both callbacks handled to the end the Project is completed.
C12_CompletedOnce ==
    /\ [][project.status = "completed" => project' = project]_vars
    /\ [](( /\ Idle
            /\ Len(payments) = MaxPayments
            /\ \A p \in PaymentIds : payments[p].status = "completed")
          => project.status = "completed")
\* the Transactions of wallet u, in creation order
RECURSIVE TransactionsOf(_, _)
TransactionsOf(u, n) ==
    IF n = 0 THEN << >>
    ELSE IF transactions[n].wallet = u
         THEN Append(TransactionsOf(u, n - 1), transactions[n])
         ELSE TransactionsOf(u, n - 1)

RECURSIVE SumAmounts(_)
SumAmounts(ts) == IF ts = << >> THEN 0 ELSE ts[1].amount + SumAmounts(Tail(ts))

RECURSIVE Replay(_, _)
Replay(ts, bal) ==
    IF ts = << >> THEN bal
    ELSE IF ts[1].previous_balance = bal /\ ts[1].new_balance = bal - ts[1].amount
         THEN Replay(Tail(ts), ts[1].new_balance)
         ELSE -1

C16_NetAmount ==
    \A p \in PaymentIds :
        payments[p].net_amount = payments[p].amount - payments[p].service_fee

\* a payment of 1000 that was retried and then completed by a callback
C16_Witness ==
    \E p \in PaymentIds :
        /\ payments[p].amount = 1000
        /\ payments[p].service_fee = 50
        /\ payments[p].net_amount = 950
        /\ payments[p].retry_count = 1
        /\ payments[p].status = "completed"
        /\ payments[p].processed_at # 0

\* the normalization rule: digits only; 9 to 12 of them; a leading 0 becomes
\* 254; a number starting with 254 is kept; 9 digits get 254 in front
PhoneRule(s) ==
    LET d == SelectSeq(s, LAMBDA c : c \in Digits)
        n == Len(d)
    IN CASE n < 9 \/ n > 12 -> None
         [] n >= 9 /\ n <= 12 /\ d[1] = "0" ->
               Formatted(<<"2", "5", "4">> \o SubSeq(d, 2, n))
         [] n >= 9 /\ n <= 12 /\ d[1] # "0" /\ SubSeq(d, 1, 3) = <<"2", "5", "4">> ->
               Formatted(d)
         [] n = 9 /\ d[1] # "0" /\ SubSeq(d, 1, 3) # <<"2", "5", "4">> ->
               Formatted(<<"2", "5", "4">> \o d)
         [] OTHER -> None

Normalized == Formatted(<<"2", "5", "4">> \o Local9)

\* C17: format_phone_number returns what the normalization rule gives for
\* every number; 0712345678, 254712345678, +254712345678 and 712345678 give
\* 254712345678, and 12345678 and 25471234567890 are rejected.
C17_PhoneNormalization ==
    fmt.done =>
        /\ fmt.result = PhoneRule(fmt.input)
        /\ fmt.input \in {<<"0">> \o Local9, <<"2", "5", "4">> \o Local9,
                            <<"+", "2", "5", "4">> \o Local9, Local9}
              => fmt.result = Normalized
        /\ fmt.input \in {Tail(Local9), <<"2", "5", "4">> \o Local9 \o <<"9", "0">>}
              => fmt.result = None

\* 0712345678 has been formatted to 254712345678
C17_Witness ==
    /\ fmt.done
    /\ fmt.input = <<"0">> \o Local9
    /\ fmt.result = Normalized

(***************************************************************************)
(* The step that creates a payment, seen from the property side: created   *)
(* is the row appended by the step.                                        *)
(***************************************************************************)
Creates == Len(payments') = Len(payments) + 1
Created == payments'[Len(payments')]

(***************************************************************************)
(* C18: dispatch outcome of a newly created Payment.  For M-Pesa: without  *)
(* a phone number on the payer's profile the payment is failed with a      *)
(* failure_reason and no CheckoutRequestID is issued; when the gateway     *)
(* accepts the push the payment is processing and holds the                *)
(* CheckoutRequestID the gateway returned; when the gateway rejects the    *)
(* push the payment is failed with the gateway's message as                *)
(* failure_reason; for every other method the payment stays pending.       *)
(***************************************************************************)
C18_DispatchOutcome ==
    [][Creates =>
        \A user \in Users, recipient \in Users, proj \in {NoProject, TheProject},
           ms \in MilestoneIds \cup {NoMilestone}, amount \in Amounts,
           method \in PAYMENT_METHODS, phone \in PhoneKinds,
           gw \in GatewayAnswers, id \in FreshIds :
              PaymentCreate(user, recipient, proj, ms, amount, method, phone, gw, id) =>
                 /\ (method = "mpesa" /\ phone = "") =>
                        /\ Created.status = "failed"
                        /\ Created.failure_reason = "Phone number not provided"
                        /\ Created.mpesa_code = NoCode
                        /\ issued' = issued
                 /\ (method = "mpesa" /\ phone = "valid" /\ gw = "accepted") =>
                        /\ Created.status = "processing"
                        /\ Created.mpesa_code = id
                        /\ issued' = issued \cup {id}
                 /\ (method = "mpesa" /\ phone = "valid" /\ gw = "rejected") =>
                        /\ Created.status = "failed"
                        /\ Created.failure_reason = "rejected by gateway"
                        /\ Created.mpesa_code = NoCode
                        /\ issued' = issued
                 /\ method # "mpesa" =>
                        /\ Created.status = "pending"
                        /\ Created.mpesa_code = NoCode
                        /\ issued' = issued]_vars

\* an M-Pesa payment whose push the gateway rejected, before any retry
C18_Witness ==
    \E p \in PaymentIds :
       /\ payments[p].payment_method = "mpesa"
       /\ payments[p].status = "failed"
       /\ payments[p].failure_reason = "rejected by gateway"
       /\ payments[p].retry_count = 0
       /\ issued = {}

(***************************************************************************)
(* C19: a push that times out leaves the newly created Payment pending.    *)
(***************************************************************************)
C19_TimeoutLeavesPending ==
    [][Creates =>
        \A user \in Users, recipient \in Users, proj \in {NoProject, TheProject},
           ms \in MilestoneIds \cup {NoMilestone}, amount \in Amounts,
           id \in FreshIds :
              PaymentCreate(user, recipient, proj, ms, amount, "mpesa", "valid",
                            "timeout", id) =>
                 Created.status = "pending"]_vars

(***************************************************************************)
(* C20: retry.  From status failed or cancelled every retry by the payer,  *)
(* whatever the profile's phone number and the gateway's answer, raises    *)
(* retry_count by exactly one; from any other status the retry leaves the  *)
(* payment unchanged.                                                      *)
(***************************************************************************)
C20_Retry ==
    \A p \in PaymentIds, phone \in PhoneKinds, gw \in GatewayAnswers, id \in FreshIds :
       payments[p].retry_count < MaxRetries =>
          IF RetryAllowed(payments[p])
          THEN ENABLED (/\ RetryPayment(payments[p].payer, p, phone, gw, id)
                        /\ payments'[p].retry_count = payments[p].retry_count + 1)
          ELSE ENABLED (/\ RetryPayment(payments[p].payer, p, phone, gw, id)
                        /\ payments' = payments)

C22_ResolutionStamped ==
    \A d \in 1..Len(disputes) :
       disputes[d].status = "resolved" =>
          /\ disputes[d].resolved_by # "none"
          /\ disputes[d].resolved_at # 0

(***************************************************************************)
(* C23: unknown and malformed callbacks are absorbed.  While the gateway   *)
(* has accepted no push there is no CheckoutRequestID a callback could     *)
(* refer to, so every callback is unknown or malformed and no payment      *)
(* carries the mark of a callback (processed_at, the callback's            *)
(* ResultDesc, a receipt).                                                 *)
(***************************************************************************)
C23_UnknownAbsorbed ==
    issued = {} =>
       \A p \in PaymentIds :
          /\ payments[p].processed_at = 0
          /\ payments[p].mpesa_receipt = ""
          /\ payments[p].failure_reason # "ResultDesc"
          /\ payments[p].status \in {"pending", "failed"}

C25_BidCount ==
    [][Len(bids') = Len(bids) + 1 =>
          bproject'.bid_count = bproject.bid_count + 1]_vars

(***************************************************************************)
(* C26: a milestone is paid only through a completed payment that          *)
(* references it.  Whenever no callback is being handled, every milestone  *)
(* with status paid has a payment tied to it whose status is completed.    *)
(***************************************************************************)
C26_PaidByCompletedPayment ==
    Idle =>
       \A m \in MilestoneIds :
          milestones[m].status = "paid" =>
             \E p \in PaymentIds : /\ payments[p].milestone = m
                                   /\ payments[p].status = "completed"

(***************************************************************************)
(* C27: callback targeting.  A callback that the handler goes on to        *)
(* process has loaded the payment whose stored mpesa_code equals the       *)
(* callback's CheckoutRequestID; a callback with an empty id, or with an   *)
(* id that only shares its first PrefixLen characters with a stored one,   *)
(* loads no payment.                                                       *)
(***************************************************************************)
C27_CallbackTargeting ==
    [][cb' # cb =>
        \A w \in Workers, cid \in CallbackIds, mridEmpty \in BOOLEAN, rc \in ResultCodes :
           CbReceive(w, "valid", cid, mridEmpty, rc) =>
              /\ cid # NoCode
              /\ payments[cb'[w].pid].mpesa_code = cid]_vars

(***************************************************************************)
(* C28: no payment is stuck in processing.  A payment in processing whose  *)
(* callback is never delivered leaves processing once its status is        *)
(* polled and the gateway reports a failure result.                        *)
(***************************************************************************)
C28_NoStuckProcessing ==
    \A p \in 1..MaxPayments :
       (p \in PaymentIds /\ payments[p].status = "processing")
          ~> (p \in PaymentIds /\ payments[p].status # "processing")

(***************************************************************************)
(* C29: concurrent retries.  For a payment that failed before any push was *)
(* accepted, once the retry requests have ended: at most one push has been *)
(* issued, retry_count equals the number of pushes issued, and every       *)
(* CheckoutRequestID issued is the one stored on the payment.              *)
(***************************************************************************)
C29_ConcurrentRetries ==
    (\A w \in Workers : rt[w].pc = "idle") =>
       \A p \in PaymentIds :
          /\ Cardinality(issued) <= 1
          /\ payments[p].retry_count = Cardinality(issued)
          /\ \A id \in issued : payments[p].mpesa_code = id

(***************************************************************************)
(* C30: normalized phone format.  Every value format_phone_number returns  *)
(* other than None has exactly 12 digits and begins with 254.              *)
(***************************************************************************)
C30_NormalizedFormat ==
    (fmt.done /\ fmt.result.valid) =>
       /\ Len(fmt.result.number) = 12
       /\ StartsWith(fmt.result.number, <<"2", "5", "4">>)
       /\ \A i \in 1..Len(fmt.result.number) : IsDigit(fmt.result.number[i])

====
